---- MODULE Spec2Model ----
(***************************************************************************)
(* Model of the demo client of the landing page (src/src/demo_client.py):  *)
(* get_demo_response resolves a free-text query to a data source, issues   *)
(* one HTTP call to the FRED or the IMF MCP endpoint, decodes the two-     *)
(* layer JSON envelope, applies the year-over-year transform where the     *)
(* mapping asks for it, and composes (text, chart, agent).                 *)
(*                                                                         *)
(* Strings the code matches on are sequences of one-character strings, so  *)
(* that Python's substring test, lower(), strip() and title() are          *)
(* computed character by character.  Optional values are None == <<>> and  *)
(* Some(x) == <<x>>.                                                        *)
(***************************************************************************)
EXTENDS Integers, Sequences, FiniteSets, TLC

(***************************************************************************)
(* The state machine: one invocation of get_demo_response at a time        *)
(*   pc           "idle", "fetch" (the POST is out), "got" (the answer is  *)
(*                in), "done" (returned) or "raised" (an exception left)   *)
(*   requests     the POSTs issued by the running invocation               *)
(*   response     the remote service's answer to the POST                  *)
(*   result       the returned (text, chart_html, agent_name)              *)
(*   seen         a query answered earlier and how it was resolved         *)
(*   DEMO_AVAILABLE  whether the page could import the demo client         *)
(*   pending_query, demo_response  the two slots of st.session_state       *)
(*   submitted, fetches  how many prompts the visitor has submitted and    *)
(*                how many times the page has called get_demo_response     *)
(* the other variables are the locals of get_demo_response                 *)
(***************************************************************************)
VARIABLES pc, query, country_info, indicator, series_id, default_title,
          default_y_label, transform, requests, response, imf_data, df,
          series_info, result, seen,
          DEMO_AVAILABLE, pending_query, demo_response, submitted, fetches

vars == <<pc, query, country_info, indicator, series_id, default_title,
          default_y_label, transform, requests, response, imf_data, df,
          series_info, result, seen,
          DEMO_AVAILABLE, pending_query, demo_response, submitted, fetches>>

\* the state of the page's session
session == <<DEMO_AVAILABLE, pending_query, demo_response, submitted, fetches>>

None == <<>>
Some(x) == <<x>>

(***************************************************************************)
(* Python string operations                                                *)
(***************************************************************************)
LowerOf ==
  [c \in {"A","B","C","D","E","F","G","H","I","J","K","L","M",
          "N","O","P","Q","R","S","T","U","V","W","X","Y","Z"} |->
     CASE c = "A" -> "a" [] c = "B" -> "b" [] c = "C" -> "c" [] c = "D" -> "d"
       [] c = "E" -> "e" [] c = "F" -> "f" [] c = "G" -> "g" [] c = "H" -> "h"
       [] c = "I" -> "i" [] c = "J" -> "j" [] c = "K" -> "k" [] c = "L" -> "l"
       [] c = "M" -> "m" [] c = "N" -> "n" [] c = "O" -> "o" [] c = "P" -> "p"
       [] c = "Q" -> "q" [] c = "R" -> "r" [] c = "S" -> "s" [] c = "T" -> "t"
       [] c = "U" -> "u" [] c = "V" -> "v" [] c = "W" -> "w" [] c = "X" -> "x"
       [] c = "Y" -> "y" [] c = "Z" -> "z"]

IsUpper(c) == c \in DOMAIN LowerOf
IsLower(c) == \E u \in DOMAIN LowerOf : LowerOf[u] = c
UpperOf(c) == CHOOSE u \in DOMAIN LowerOf : LowerOf[u] = c

\* str.lower()
lower(s) == [i \in 1..Len(s) |-> IF IsUpper(s[i]) THEN LowerOf[s[i]] ELSE s[i]] \o <<>>

\* str.strip(): leading and trailing whitespace removed
strip(s) ==
  LET inked == {i \in 1..Len(s) : s[i] # " "}
  IN IF inked = {} THEN <<>>
     ELSE LET lo == CHOOSE i \in inked : \A j \in inked : i <= j
              hi == CHOOSE i \in inked : \A j \in inked : i >= j
          IN SubSeq(s, lo, hi)

\* str.title(): a cased character is upper-cased when it follows an uncased
\* one (or starts the string) and lower-cased otherwise
title(s) ==
  [i \in 1..Len(s) |->
     LET cased(c) == IsUpper(c) \/ IsLower(c)
         first == i = 1 \/ ~cased(s[i-1])
     IN IF ~cased(s[i]) THEN s[i]
        ELSE IF first THEN (IF IsLower(s[i]) THEN UpperOf(s[i]) ELSE s[i])
        ELSE (IF IsUpper(s[i]) THEN LowerOf[s[i]] ELSE s[i])]

\* Python's `needle in hay` on strings
IsSubstring(needle, hay) ==
  \E i \in 0..(Len(hay) - Len(needle)) :
     \A j \in 1..Len(needle) : hay[i + j] = needle[j]

(***************************************************************************)
(* The static lookup tables, in declaration order                          *)
(***************************************************************************)
COUNTRY_CODES ==
  << <<<<"f","r","a","n","c","e">>, "FRA">>,
     <<<<"g","e","r","m","a","n","y">>, "DEU">>,
     <<<<"u","k">>, "GBR">>,
     <<<<"b","r","i","t","a","i","n">>, "GBR">>,
     <<<<"j","a","p","a","n">>, "JPN">>,
     <<<<"c","h","i","n","a">>, "CHN">>,
     <<<<"i","n","d","i","a">>, "IND">>,
     <<<<"b","r","a","z","i","l">>, "BRA">>,
     <<<<"m","e","x","i","c","o">>, "MEX">>,
     <<<<"c","a","n","a","d","a">>, "CAN">>,
     <<<<"a","u","s","t","r","a","l","i","a">>, "AUS">>,
     <<<<"i","t","a","l","y">>, "ITA">>,
     <<<<"s","p","a","i","n">>, "ESP">>,
     <<<<"a","r","g","e","n","t","i","n","a">>, "ARG">>,
     <<<<"r","u","s","s","i","a">>, "RUS">>,
     <<<<"k","o","r","e","a">>, "KOR">>,
     <<<<"i","n","d","o","n","e","s","i","a">>, "IDN">>,
     <<<<"t","u","r","k","e","y">>, "TUR">>,
     <<<<"s","a","u","d","i">>, "SAU">>,
     <<<<"s","o","u","t","h"," ","a","f","r","i","c","a">>, "ZAF">>,
     <<<<"n","i","g","e","r","i","a">>, "NGA">>,
     <<<<"e","g","y","p","t">>, "EGY">>,
     <<<<"p","o","l","a","n","d">>, "POL">>,
     <<<<"n","e","t","h","e","r","l","a","n","d","s">>, "NLD">>,
     <<<<"b","e","l","g","i","u","m">>, "BEL">>,
     <<<<"s","w","e","d","e","n">>, "SWE">>,
     <<<<"n","o","r","w","a","y">>, "NOR">>,
     <<<<"s","w","i","t","z","e","r","l","a","n","d">>, "CHE">>,
     <<<<"a","u","s","t","r","i","a">>, "AUT">>,
     <<<<"g","r","e","e","c","e">>, "GRC">>,
     <<<<"p","o","r","t","u","g","a","l">>, "PRT">>,
     <<<<"i","r","e","l","a","n","d">>, "IRL">>,
     <<<<"d","e","n","m","a","r","k">>, "DNK">>,
     <<<<"f","i","n","l","a","n","d">>, "FIN">>,
     <<<<"c","z","e","c","h">>, "CZE">>,
     <<<<"h","u","n","g","a","r","y">>, "HUN">>,
     <<<<"r","o","m","a","n","i","a">>, "ROU">>,
     <<<<"u","k","r","a","i","n","e">>, "UKR">>,
     <<<<"v","i","e","t","n","a","m">>, "VNM">>,
     <<<<"t","h","a","i","l","a","n","d">>, "THA">>,
     <<<<"m","a","l","a","y","s","i","a">>, "MYS">>,
     <<<<"s","i","n","g","a","p","o","r","e">>, "SGP">>,
     <<<<"p","h","i","l","i","p","p","i","n","e","s">>, "PHL">>,
     <<<<"p","a","k","i","s","t","a","n">>, "PAK">>,
     <<<<"b","a","n","g","l","a","d","e","s","h">>, "BGD">>,
     <<<<"c","h","i","l","e">>, "CHL">>,
     <<<<"c","o","l","o","m","b","i","a">>, "COL">>,
     <<<<"p","e","r","u">>, "PER">>,
     <<<<"v","e","n","e","z","u","e","l","a">>, "VEN">>,
     <<<<"i","s","r","a","e","l">>, "ISR">>,
     <<<<"u","a","e">>, "ARE">>,
     <<<<"q","a","t","a","r">>, "QAT">>,
     <<<<"k","u","w","a","i","t">>, "KWT">>,
     <<<<"k","a","z","a","k","h","s","t","a","n">>, "KAZ">>,
     <<<<"u","n","i","t","e","d"," ","s","t","a","t","e","s">>, "USA">>,
     <<<<"u","s">>, "USA">>,
     <<<<"u","s","a">>, "USA">>,
     <<<<"a","m","e","r","i","c","a">>, "USA">> >>

QUERY_MAPPINGS ==
  << [keyword |-> <<"i","n","f","l","a","t","i","o","n">>,
      sid |-> "CPIAUCSL", ttl |-> "US Inflation Rate (YoY)", ylabel |-> "Percent", xform |-> "yoy"],
     [keyword |-> <<"u","s"," ","i","n","f","l","a","t","i","o","n">>,
      sid |-> "CPIAUCSL", ttl |-> "US Inflation Rate (YoY)", ylabel |-> "Percent", xform |-> "yoy"],
     [keyword |-> <<"c","p","i">>,
      sid |-> "CPIAUCSL", ttl |-> "US Consumer Price Index", ylabel |-> "Index", xform |-> "level"],
     [keyword |-> <<"u","n","e","m","p","l","o","y","m","e","n","t">>,
      sid |-> "UNRATE", ttl |-> "US Unemployment Rate", ylabel |-> "Percent", xform |-> "level"],
     [keyword |-> <<"g","d","p">>,
      sid |-> "GDP", ttl |-> "US Gross Domestic Product", ylabel |-> "Billions of Dollars", xform |-> "level"],
     [keyword |-> <<"u","s"," ","g","d","p">>,
      sid |-> "GDP", ttl |-> "US Gross Domestic Product", ylabel |-> "Billions of Dollars", xform |-> "level"],
     [keyword |-> <<"f","e","d"," ","f","u","n","d","s">>,
      sid |-> "FEDFUNDS", ttl |-> "Federal Funds Rate", ylabel |-> "Percent", xform |-> "level"],
     [keyword |-> <<"i","n","t","e","r","e","s","t"," ","r","a","t","e">>,
      sid |-> "FEDFUNDS", ttl |-> "Federal Funds Rate", ylabel |-> "Percent", xform |-> "level"],
     [keyword |-> <<"1","0"," ","y","e","a","r">>,
      sid |-> "DGS10", ttl |-> "10-Year Treasury Rate", ylabel |-> "Percent", xform |-> "level"],
     [keyword |-> <<"t","r","e","a","s","u","r","y">>,
      sid |-> "DGS10", ttl |-> "10-Year Treasury Rate", ylabel |-> "Percent", xform |-> "level"] >>

\* detect_country that falls back on the country of the query kept in `seen`
\* when the query names none
detect_country_sticky(q) ==
  LET query_lower == lower(q)
      hits == {i \in 1..Len(COUNTRY_CODES) :
                 IsSubstring(COUNTRY_CODES[i][1], query_lower)}
  IN IF hits = {}
     THEN (IF seen # None /\ IsSubstring(<<"b","r","a","z","i","l">>, lower(seen[1].query))
           THEN Some(<<<<"B","r","a","z","i","l">>, "BRA">>) ELSE None)
     ELSE LET i == CHOOSE k \in hits : \A j \in hits : k <= j
          IN Some(<<title(COUNTRY_CODES[i][1]), COUNTRY_CODES[i][2]>>)

\* detect_country: the first COUNTRY_CODES entry, in dict order, whose name
\* is a substring of the lower-cased query
detect_country(q) ==
  LET query_lower == lower(q)
      hits == {i \in 1..Len(COUNTRY_CODES) :
                 IsSubstring(COUNTRY_CODES[i][1], query_lower)}
  IN IF hits = {} THEN None
     ELSE LET i == CHOOSE k \in hits : \A j \in hits : k <= j
          IN Some(<<title(COUNTRY_CODES[i][1]), COUNTRY_CODES[i][2]>>)

\* detect_indicator with the unemployment group tested before the
\* inflation group
detect_indicator_reordered(q) ==
  LET query_lower == lower(q)
      has(w) == IsSubstring(w, query_lower)
  IN IF has(<<"u","n","e","m","p","l","o","y","m","e","n","t">>)
        \/ has(<<"j","o","b","l","e","s","s">>)
     THEN [tool_name |-> "imf_unemployment", title |-> "Unemployment Rate",
           y_label |-> "Percent"]
     ELSE IF has(<<"i","n","f","l","a","t","i","o","n">>) \/ has(<<"c","p","i">>)
             \/ has(<<"p","r","i","c","e">>)
     THEN [tool_name |-> "imf_inflation", title |-> "Inflation Rate",
           y_label |-> "Percent"]
     ELSE IF has(<<"c","u","r","r","e","n","t"," ","a","c","c","o","u","n","t">>)
             \/ has(<<"t","r","a","d","e"," ","b","a","l","a","n","c","e">>)
     THEN [tool_name |-> "imf_current_account",
           title |-> "Current Account Balance", y_label |-> "% of GDP"]
     ELSE [tool_name |-> "imf_gdp", title |-> "Real GDP Growth",
           y_label |-> "Percent"]

\* detect_indicator: ordered keyword groups, GDP growth by default
detect_indicator(q) ==
  LET query_lower == lower(q)
      has(w) == IsSubstring(w, query_lower)
  IN IF has(<<"i","n","f","l","a","t","i","o","n">>) \/ has(<<"c","p","i">>)
        \/ has(<<"p","r","i","c","e">>)
     THEN [tool_name |-> "imf_inflation", title |-> "Inflation Rate",
           y_label |-> "Percent"]
     ELSE IF has(<<"u","n","e","m","p","l","o","y","m","e","n","t">>)
             \/ has(<<"j","o","b","l","e","s","s">>)
     THEN [tool_name |-> "imf_unemployment", title |-> "Unemployment Rate",
           y_label |-> "Percent"]
     ELSE IF has(<<"c","u","r","r","e","n","t"," ","a","c","c","o","u","n","t">>)
             \/ has(<<"t","r","a","d","e"," ","b","a","l","a","n","c","e">>)
     THEN [tool_name |-> "imf_current_account",
           title |-> "Current Account Balance", y_label |-> "% of GDP"]
     ELSE [tool_name |-> "imf_gdp", title |-> "Real GDP Growth",
           y_label |-> "Percent"]

\* scan_mappings with the GDP series as the value the locals start from
scan_mappings_gdp_default(query_lower) ==
  LET hits == {i \in 1..Len(QUERY_MAPPINGS) :
                 IsSubstring(QUERY_MAPPINGS[i].keyword, query_lower)}
      m == QUERY_MAPPINGS[IF hits = {} THEN 5
                          ELSE CHOOSE k \in hits : \A j \in hits : k <= j]
  IN [series_id |-> Some(m.sid), default_title |-> m.ttl,
      default_y_label |-> m.ylabel, transform |-> m.xform]

\* scan_mappings without the break: the last matching keyword wins
scan_mappings_no_break(query_lower) ==
  LET hits == {i \in 1..Len(QUERY_MAPPINGS) :
                 IsSubstring(QUERY_MAPPINGS[i].keyword, query_lower)}
  IN IF hits = {}
     THEN [series_id |-> None, default_title |-> "", default_y_label |-> "",
           transform |-> "level"]
     ELSE LET m == QUERY_MAPPINGS[CHOOSE k \in hits : \A j \in hits : k >= j]
          IN [series_id |-> Some(m.sid), default_title |-> m.ttl,
              default_y_label |-> m.ylabel, transform |-> m.xform]

\* The keyword loop of get_demo_response: the locals as initialised, then
\* overwritten by the first QUERY_MAPPINGS entry whose keyword is a substring
\* of query_lower (break on first match)
scan_mappings(query_lower) ==
  LET hits == {i \in 1..Len(QUERY_MAPPINGS) :
                 IsSubstring(QUERY_MAPPINGS[i].keyword, query_lower)}
  IN IF hits = {}
     THEN [series_id |-> None, default_title |-> "", default_y_label |-> "",
           transform |-> "level"]
     ELSE LET m == QUERY_MAPPINGS[CHOOSE k \in hits : \A j \in hits : k <= j]
          IN [series_id |-> Some(m.sid), default_title |-> m.ttl,
              default_y_label |-> m.ylabel, transform |-> m.xform]

(***************************************************************************)
(* Queries: up to MaxWords phrases of the vocabulary joined by one space   *)
(***************************************************************************)
Vocabulary ==
  { <<"S","h","o","w"," ","m","e">>,
    <<"U","S">>,
    <<"i","n","f","l","a","t","i","o","n">>,
    <<"U","S"," ","i","n","f","l","a","t","i","o","n">>,
    <<"C","P","I">>,
    <<"U","k","r","a","i","n","e">>,
    <<"B","r","a","z","i","l">> }

RECURSIVE Join(_)
Join(ws) == IF Len(ws) = 1 THEN ws[1] ELSE ws[1] \o <<" ">> \o Join(Tail(ws))

QueriesOver(words, k) == {Join(ws) : ws \in UNION {[1..n -> words] : n \in 1..k}}

Queries(k) == QueriesOver(Vocabulary, k)

(***************************************************************************)
(* JSON values and floats                                                  *)
(*   a JSON field is [t, v]: t = "num" (number v), "numstr" (a string that *)
(*   spells the number v), "badstr" (any other string), "null", or         *)
(*   "absent" (the key is missing)                                         *)
(*   a float is [t, n, d]: t = "num" (the rational n/d, d > 0), "nan",     *)
(*   "inf" or "-inf"                                                       *)
(***************************************************************************)
JNum(v) == [t |-> "num", v |-> v]
JNumStr(v) == [t |-> "numstr", v |-> v]
JBadStr == [t |-> "badstr", v |-> 0]
JEmptyStr == [t |-> "emptystr", v |-> 0]
JNull == [t |-> "null", v |-> 0]
JAbsent == [t |-> "absent", v |-> 0]

\* dict.get(key, default)
Get(field, default) == IF field.t = "absent" THEN default ELSE field

Float(n, d) == [t |-> "num", n |-> n, d |-> d]
NaN == [t |-> "nan", n |-> 0, d |-> 1]
Inf == [t |-> "inf", n |-> 0, d |-> 1]
NegInf == [t |-> "-inf", n |-> 0, d |-> 1]

\* IEEE division a / b
FDiv(a, b) ==
  IF a.t = "nan" \/ b.t = "nan" THEN NaN
  ELSE IF a.t # "num" THEN (IF b.t # "num" THEN NaN
                             ELSE IF (a.t = "inf") = (b.n >= 0) THEN Inf ELSE NegInf)
  ELSE IF b.t # "num" THEN Float(0, 1)
  ELSE IF b.n = 0 THEN (IF a.n = 0 THEN NaN ELSE IF a.n > 0 THEN Inf ELSE NegInf)
  ELSE IF b.n > 0 THEN Float(a.n * b.d, a.d * b.n)
  ELSE Float(-(a.n * b.d), -(a.d * b.n))

\* a - k and a * k for an integer k > 0
FSubInt(a, k) == IF a.t = "num" THEN Float(a.n - k * a.d, a.d) ELSE a
FMulInt(a, k) == IF a.t = "num" THEN Float(a.n * k, a.d) ELSE a

(***************************************************************************)
(* What the remote service can answer to one POST                          *)
(***************************************************************************)
\* requests.post raises (timeout=30 elapsed, connection refused), or an HTTP
\* response arrives: its status, whether the body is JSON, whether the JSON
\* carries "error", its "content" list, and the JSON text of content[0]
Envelope(transport, status, outer, error, content, text, payload) ==
  [transport |-> transport, status |-> status, outer |-> outer, error |-> error,
   content |-> content, text |-> text, payload |-> payload]

WellFormed(payload) == Envelope("ok", 200, "json", FALSE, "item", "object", payload)

\* every way an exchange can fail before a payload object is decoded
Failures(payload) ==
  {Envelope(tr, 200, "json", FALSE, "item", "object", payload) :
      tr \in {"timeout", "connection_error"}}
  \cup {Envelope("ok", st, "json", FALSE, "item", "object", payload) : st \in {404, 500}}
  \cup {Envelope("ok", 200, "invalid", FALSE, "item", "object", payload)}
  \cup {Envelope("ok", 200, "json", TRUE, c, "object", payload) :
          c \in {"absent", "empty", "item"}}
  \cup {Envelope("ok", 200, "json", FALSE, c, "object", payload) : c \in {"absent", "empty"}}
  \cup {Envelope("ok", 200, "json", FALSE, "item", tx, payload) : tx \in {"null", "invalid"}}

\* decode_envelope without the `"error" in mcp_data` check
decode_envelope_ignoring_error(r) ==
  IF r.transport # "ok" THEN None
  ELSE IF r.status # 200 THEN None
  ELSE IF r.outer # "json" THEN None
  ELSE IF r.content # "item" THEN None
  ELSE IF r.text # "object" THEN None
  ELSE Some(r.payload)

\* the part of get_imf_data / get_fred_data the two share: the decoded
\* payload object, or None (return None, {} / exception caught)
decode_envelope(r) ==
  IF r.transport # "ok" THEN None              \* requests.post raised
  ELSE IF r.status # 200 THEN None
  ELSE IF r.outer # "json" THEN None           \* response.json() raised
  ELSE IF r.error THEN None                    \* "error" in mcp_data
  ELSE IF r.content # "item" THEN None         \* no "content" or an empty list
  ELSE IF r.text # "object" THEN None          \* json.loads raised, or result.get on None
  ELSE Some(r.payload)

(***************************************************************************)
(* International source                                                    *)
(***************************************************************************)
Summary(lv, ly, pv, py, ch) ==
  [latest_value |-> lv, latest_year |-> ly, previous_value |-> pv,
   previous_year |-> py, change |-> ch]

EmptySummary == Summary(JAbsent, JAbsent, JAbsent, JAbsent, JAbsent)

SummaryValues == {JAbsent, JNull, JNum(3), JBadStr}
ChangeValues == {JAbsent, JNull, JNumStr(1), JNumStr(-1), JNumStr(0), JBadStr}

ImfPayloads ==
  {EmptySummary} \cup
  {Summary(lv, JNum(2024), pv, JNum(2023), ch) :
      lv \in SummaryValues, pv \in SummaryValues, ch \in ChangeValues}

ImfResponses ==
  Failures(Summary(JNum(3), JNum(2024), JNum(2), JNum(2023), JNumStr(1)))
  \cup {WellFormed(p) : p \in ImfPayloads}

get_imf_data(r) == decode_envelope(r)

(***************************************************************************)
(* Domestic source                                                         *)
(*   a chart_data row is [date, value]: date is [t, v] with t = "date" (a  *)
(*   string spelling month number v), "null" or "bad" (a string that is no *)
(*   date); value is a JSON field                                          *)
(*   a DataFrame is a sequence of rows [date, value]: date is [t, v] with  *)
(*   t = "ts" (the timestamp of month v) or "NaT"; value is a float        *)
(***************************************************************************)
JDate(m) == [t |-> "date", v |-> m]
JNullDate == [t |-> "null", v |-> 0]
JBadDate == [t |-> "bad", v |-> 0]

Timestamp(m) == [t |-> "ts", v |-> m]
NaT == [t |-> "NaT", v |-> 0]

\* pd.to_datetime on one cell (raises on "bad": see get_fred_data)
to_datetime(x) == IF x.t = "date" THEN Timestamp(x.v) ELSE NaT

\* pd.to_numeric(errors="coerce") on one cell
to_numeric(x) == IF x.t \in {"num", "numstr"} THEN Float(x.v, 1) ELSE NaN

\* dropna(subset=["value"]): only a missing value drops the row
dropna_value_only(frame) ==
  LET complete(row) == row.value.t # "nan"
  IN SelectSeq(frame, complete)

\* DataFrame.dropna(): the rows with no missing cell
dropna(frame) ==
  LET complete(row) == row.date.t # "NaT" /\ row.value.t # "nan"
  IN SelectSeq(frame, complete)

FredPayload(chart_data, ttl, units) ==
  [chart_data |-> chart_data, title |-> ttl, units |-> units]

NoInfo == [title |-> "", units |-> ""]

\* get_fred_data after the POST: (df, series_info)
get_fred_data(r) ==
  LET decoded == decode_envelope(r)
  IN IF decoded = None THEN [df |-> None, series_info |-> NoInfo]
     ELSE LET payload == decoded[1]
              \* result.get("chart_data", [])
              chart_data == IF payload.chart_data = None THEN <<>>
                            ELSE payload.chart_data[1]
              info == [title |-> payload.title, units |-> payload.units]
          IN IF chart_data = <<>> THEN [df |-> None, series_info |-> NoInfo]
             ELSE IF \E i \in 1..Len(chart_data) : chart_data[i].date.t = "bad"
             THEN [df |-> None, series_info |-> NoInfo]    \* to_datetime raised
             ELSE [df |-> Some(dropna([i \in 1..Len(chart_data) |->
                                 [date |-> to_datetime(chart_data[i].date),
                                  value |-> to_numeric(chart_data[i].value)]])),
                   series_info |-> info]

YoyPeriods == 12

\* DataFrame.sort_values("date")
sort_values(frame) ==
  LET n == Len(frame)
      rank(i) == 1 + Cardinality({j \in 1..n :
                        \/ frame[j].date.v < frame[i].date.v
                        \/ frame[j].date.v = frame[i].date.v /\ j < i})
  IN [k \in 1..n |-> frame[CHOOSE i \in 1..n : rank(i) = k]]

\* Series.pct_change(periods): v[i] / v[i - periods] - 1, NaN for the first
\* `periods` rows
pct_change(frame, periods) ==
  [i \in 1..Len(frame) |->
     [date |-> frame[i].date,
      value |-> IF i <= periods THEN NaN
                ELSE FSubInt(FDiv(frame[i].value, frame[i - periods].value), 1)]]

\* transform_to_yoy without the sort by date
transform_to_yoy_unsorted(frame) ==
  LET changed == pct_change(frame, YoyPeriods)
      scaled == [i \in 1..Len(changed) |->
                   [date |-> changed[i].date, value |-> FMulInt(changed[i].value, 100)]]
  IN dropna(scaled)

transform_to_yoy(frame) ==
  LET sorted == sort_values(frame)
      changed == pct_change(sorted, YoyPeriods)
      scaled == [i \in 1..Len(changed) |->
                   [date |-> changed[i].date, value |-> FMulInt(changed[i].value, 100)]]
  IN dropna(scaled)

\* the series the domestic service is sampled with: n monthly rows with
\* rising values, in ascending or descending date order, possibly with a
\* defect in the earliest row or in every value
Reverse(s) == [i \in 1..Len(s) |-> s[Len(s) + 1 - i]]

BaseRows(n) == [i \in 1..n |-> [date |-> JDate(i), value |-> JNum(100 + 2 * i)]]

WithDefect(rows, defect) ==
  [i \in 1..Len(rows) |->
     CASE defect = "all_nonnumeric" -> [date |-> rows[i].date, value |-> JBadStr]
       [] defect = "one_nonnumeric" /\ i = 1 -> [date |-> rows[i].date, value |-> JNull]
       [] defect = "null_date" /\ i = 1 -> [date |-> JNullDate, value |-> rows[i].value]
       [] defect = "bad_date" /\ i = 1 -> [date |-> JBadDate, value |-> rows[i].value]
       [] OTHER -> rows[i]]

ChartSizes == {0, 1, YoyPeriods, YoyPeriods + 1, YoyPeriods + 2}

SampleCharts ==
  LET defected == {WithDefect(BaseRows(n), d) : n \in ChartSizes,
                     d \in {"none", "all_nonnumeric", "one_nonnumeric",
                            "null_date", "bad_date"}}
  IN defected \cup {Reverse(c) : c \in defected}

FredPayloads ==
  {FredPayload(c, info.title, info.units) :
      c \in {None} \cup {Some(ch) : ch \in SampleCharts},
      info \in {NoInfo, [title |-> "Consumer Price Index for All Urban Consumers",
                         units |-> "Index 1982-1984=100"]}}

FredResponses ==
  Failures(FredPayload(Some(BaseRows(YoyPeriods + 1)), "", ""))
  \cup {WellFormed(p) : p \in FredPayloads}

(***************************************************************************)
(* Composing the response                                                  *)
(*   an outcome is [raised, value]: raised = TRUE when an exception leaves *)
(*   get_demo_response, else value is the triple (text, chart, agent)      *)
(***************************************************************************)
Triple(text, chart, agent) ==
  [raised |-> FALSE, value |-> Some([text |-> text, chart |-> chart, agent |-> agent])]

Raised == [raised |-> TRUE, value |-> None]

\* format(x, ".1f") is defined for numbers only: None and str raise
Formats(x) == x.t = "num"

\* float(change): numbers and numeric strings parse, anything else raises
Parses(x) == x.t \in {"num", "numstr"}

\* international_response that gives up when `change` does not parse
international_response_strict(country_name, ind, data) ==
  IF data = None \/ (data # None /\ ~Parses(Get(data[1].change, JNumStr(0))))
  THEN Triple([kind |-> "imf_apology", indicator_title |-> ind.title,
               country_name |-> country_name], None, "Isla")
  ELSE LET d == data[1]
           latest_value == Get(d.latest_value, JNum(0))
           previous_value == Get(d.previous_value, JNum(0))
       IN IF ~Formats(latest_value) \/ ~Formats(previous_value) THEN Raised
          ELSE Triple([kind |-> "imf_summary", country_name |-> country_name,
                       indicator_title |-> ind.title,
                       latest_value |-> latest_value,
                       previous_value |-> previous_value],
                      Some([kind |-> "bar", y |-> <<previous_value, latest_value>>]),
                      "Isla")

\* the international branch after get_imf_data returned imf_data
international_response(country_name, ind, data) ==
  IF data = None
  THEN Triple([kind |-> "imf_apology", indicator_title |-> ind.title,
               country_name |-> country_name], None, "Isla")
  ELSE LET d == data[1]
           latest_value == Get(d.latest_value, JNum(0))
           latest_year == Get(d.latest_year, JEmptyStr)
           previous_value == Get(d.previous_value, JNum(0))
           previous_year == Get(d.previous_year, JEmptyStr)
           change == Get(d.change, JNumStr(0))
           direction == IF ~Parses(change) THEN "changed"
                        ELSE IF change.v > 0 THEN "up"
                        ELSE IF change.v < 0 THEN "down" ELSE "unchanged"
           direction_emoji == IF ~Parses(change) THEN ""
                              ELSE IF change.v > 0 THEN "chart_up"
                              ELSE IF change.v < 0 THEN "chart_down" ELSE "arrow_right"
       IN IF ~Formats(latest_value) \/ ~Formats(previous_value) THEN Raised
          ELSE Triple([kind |-> "imf_summary", country_name |-> country_name,
                       indicator_title |-> ind.title,
                       latest_year |-> latest_year, latest_value |-> latest_value,
                       previous_year |-> previous_year,
                       previous_value |-> previous_value,
                       change |-> change, direction |-> direction,
                       direction_emoji |-> direction_emoji],
                      Some([kind |-> "bar",
                            x |-> <<previous_year, latest_year>>,
                            y |-> <<previous_value, latest_value>>,
                            title |-> <<country_name, ind.title>>,
                            y_label |-> ind.y_label]),
                      "Isla")

\* create_chart: a filled line over the rows of df
create_chart(frame, ttl, y_label) ==
  [kind |-> "line", x |-> [i \in 1..Len(frame) |-> frame[i].date],
   y |-> [i \in 1..Len(frame) |-> frame[i].value], title |-> ttl, y_label |-> y_label]

\* the domestic branch after get_fred_data returned (fetched, series_info):
\* the DataFrame it ends with and the outcome
domestic_response(fetched, info, xform, dtitle, dlabel) ==
  LET apology == Triple([kind |-> "fred_apology", default_title |-> dtitle],
                        None, "Fred")
  IN IF fetched = None \/ (fetched # None /\ Len(fetched[1]) = 0)
     THEN [df |-> fetched, outcome |-> apology]
     ELSE LET frame == IF xform = "yoy" THEN transform_to_yoy(fetched[1]) ELSE fetched[1]
              ttl == IF xform = "yoy" \/ info.title = ""
                     THEN dtitle ELSE info.title
              y_label == IF xform = "yoy" \/ info.units = ""
                         THEN dlabel ELSE info.units
          IN IF Len(frame) = 0 THEN [df |-> Some(frame), outcome |-> apology]
             ELSE LET latest == frame[Len(frame)]      \* frame.iloc[-1]
                  IN [df |-> Some(frame),
                      outcome |->
                        Triple([kind |-> IF xform = "yoy" THEN "fred_yoy" ELSE "fred_level",
                                title |-> ttl, latest_date |-> latest.date,
                                latest_value |-> latest.value, y_label |-> y_label],
                               Some(create_chart(frame, ttl, y_label)), "Fred")]

HelpText == [kind |-> "help"]

Unset ==
  /\ query = <<>>
  /\ country_info = None
  /\ indicator = None
  /\ series_id = None
  /\ default_title = ""
  /\ default_y_label = ""
  /\ transform = ""
  /\ requests = <<>>
  /\ response = None
  /\ imf_data = None
  /\ df = None
  /\ series_info = NoInfo
  /\ result = None

\* the locals of an invocation that is over are gone
Reset ==
  /\ query' = <<>>
  /\ country_info' = None
  /\ indicator' = None
  /\ series_id' = None
  /\ default_title' = ""
  /\ default_y_label' = ""
  /\ transform' = ""
  /\ requests' = <<>>
  /\ response' = None
  /\ imf_data' = None
  /\ df' = None
  /\ series_info' = NoInfo
  /\ result' = None

Init ==
  /\ pc = "idle"
  /\ Unset
  /\ seen = None
  /\ DEMO_AVAILABLE = TRUE
  /\ pending_query = None
  /\ demo_response = None
  /\ submitted = 0
  /\ fetches = 0

IsForeign(ci) == ci # None /\ ci[1][2] # "USA"

\* get_demo_response(q) up to its POST, or to the help text when nothing
\* matches
get_demo_response(q) ==
  /\ pc = "idle"
  /\ query' = q
  /\ country_info' = detect_country(q)
  /\ IF IsForeign(country_info')
     THEN /\ indicator' = Some(detect_indicator(q))
          /\ requests' = <<[url |-> "IMF_MCP_URL", name |-> indicator'[1].tool_name,
                            arguments |-> [country |-> country_info'[1][2]]]>>
          /\ pc' = "fetch"
          /\ UNCHANGED <<series_id, default_title, default_y_label, transform, result>>
     ELSE LET m == scan_mappings(strip(lower(q)))
          IN /\ series_id' = m.series_id
             /\ default_title' = m.default_title
             /\ default_y_label' = m.default_y_label
             /\ transform' = m.transform
             /\ UNCHANGED indicator
             /\ IF m.series_id # None
                THEN /\ requests' = <<[url |-> "FRED_MCP_URL",
                                       name |-> "fred_series_timeseries",
                                       arguments |-> [series_id |-> m.series_id[1],
                                                      years |-> 10]]>>
                     /\ pc' = "fetch"
                     /\ UNCHANGED result
                ELSE /\ requests' = <<>>
                     /\ result' = Some([text |-> HelpText, chart |-> None,
                                        agent |-> "Grace"])
                     /\ pc' = "done"
  /\ UNCHANGED <<response, imf_data, df, series_info, seen>>

\* a call of get_demo_response that leaves the page's session alone
Call(q) == get_demo_response(q) /\ UNCHANGED session

\* the remote service answers the POST (or the POST fails)
Respond(r) ==
  /\ pc = "fetch"
  /\ response' = Some(r)
  /\ pc' = "got"
  /\ UNCHANGED <<query, country_info, indicator, series_id, default_title,
                 default_y_label, transform, requests, imf_data, df,
                 series_info, result, seen, session>>

RespondImf(r) == pc = "fetch" /\ requests[1].url = "IMF_MCP_URL" /\ Respond(r)
RespondFred(r) == pc = "fetch" /\ requests[1].url = "FRED_MCP_URL" /\ Respond(r)

\* Complete with one retry: when the first fetch returned no data the POST
\* is issued again
Complete_retry ==
  /\ pc = "got"
  /\ IF decode_envelope(response[1]) = None /\ Len(requests) = 1
     THEN /\ requests' = Append(requests, requests[1])
          /\ response' = None
          /\ pc' = "fetch"
          /\ UNCHANGED <<imf_data, df, series_info, result>>
     ELSE /\ UNCHANGED <<requests, response>>
          /\ IF IsForeign(country_info)
             THEN LET out == international_response(country_info[1][1], indicator[1],
                                                    get_imf_data(response[1]))
                  IN /\ imf_data' = get_imf_data(response[1])
                     /\ result' = out.value
                     /\ pc' = IF out.raised THEN "raised" ELSE "done"
                     /\ UNCHANGED <<df, series_info>>
             ELSE LET got == get_fred_data(response[1])
                      out == domestic_response(got.df, got.series_info, transform,
                                               default_title, default_y_label)
                  IN /\ series_info' = got.series_info
                     /\ df' = out.df
                     /\ result' = out.outcome.value
                     /\ pc' = IF out.outcome.raised THEN "raised" ELSE "done"
                     /\ UNCHANGED imf_data
  /\ UNCHANGED <<query, country_info, indicator, series_id, default_title,
                 default_y_label, transform, seen, session>>

\* get_demo_response from the return of the fetch to its own return
Complete ==
  /\ pc = "got"
  /\ IF IsForeign(country_info)
     THEN LET out == international_response(country_info[1][1], indicator[1],
                                            get_imf_data(response[1]))
          IN /\ imf_data' = get_imf_data(response[1])
             /\ result' = out.value
             /\ pc' = IF out.raised THEN "raised" ELSE "done"
             /\ UNCHANGED <<df, series_info>>
     ELSE LET got == get_fred_data(response[1])
              out == domestic_response(got.df, got.series_info, transform,
                                       default_title, default_y_label)
          IN /\ series_info' = got.series_info
             /\ df' = out.df
             /\ result' = out.outcome.value
             /\ pc' = IF out.outcome.raised THEN "raised" ELSE "done"
             /\ UNCHANGED imf_data
  /\ UNCHANGED <<query, country_info, indicator, series_id, default_title,
                 default_y_label, transform, requests, response, seen,
                 session>>

\* how the running invocation resolved its query
Resolution ==
  [source |-> IF requests = <<>> THEN "none" ELSE requests[1].url,
   requests |-> requests,
   transform |-> transform,
   agent |-> IF result = None THEN "" ELSE result[1].agent]

\* the invocation is over: its locals are gone
Return ==
  /\ pc \in {"done", "raised"}
  /\ pc' = "idle"
  /\ Reset
  /\ UNCHANGED <<seen, session>>

\* the same, and the caller keeps the query and how it was resolved
Remember ==
  /\ pc = "done"
  /\ pc' = "idle"
  /\ Reset
  /\ seen' = Some([query |-> query, resolution |-> Resolution])
  /\ UNCHANGED session

MaxWords == 2

Next ==
  \/ pc = "idle" /\ \E q \in Queries(MaxWords) : Call(q)
  \/ pc = "fetch" /\ \E r \in ImfResponses : RespondImf(r)
  \/ pc = "fetch" /\ \E r \in FredResponses : RespondFred(r)
  \/ Complete
  \/ Return

Spec == Init /\ [][Next]_vars

(***************************************************************************)
(* The same invocation, called again and again with the caller keeping     *)
(* what an earlier call resolved to (the fetch times out)                  *)
(***************************************************************************)
MaxRepeatWords == 1

Timeout(payload) == Envelope("timeout", 200, "json", FALSE, "item", "object", payload)

NextRepeat ==
  \/ pc = "idle" /\ \E q \in Queries(MaxRepeatWords) : Call(q)
  \/ RespondImf(Timeout(EmptySummary))
  \/ RespondFred(Timeout(FredPayload(None, "", "")))
  \/ Complete
  \/ Return
  \/ Remember

SpecRepeat == Init /\ [][NextRepeat]_vars

(***************************************************************************)
(* The year-over-year request ("inflation") against a domestic service     *)
(* that answers with a rising monthly series                               *)
(***************************************************************************)
MaxPoints == 14
MaxStart == 3
MaxStep == 2

\* n monthly rows, values rising by `step` a month and by one more after
\* month k
RisingRows(n, start, step, k) ==
  [i \in 1..n |-> [date |-> JDate(i),
                   value |-> JNum(start + step * i + (IF i > k THEN 1 ELSE 0))]]

RisingCharts ==
  LET asc == {RisingRows(n, start, step, k) :
                n \in 0..MaxPoints, start \in (0 - MaxStart)..MaxStart,
                step \in 1..MaxStep, k \in 0..MaxPoints}
  IN asc \cup {Reverse(c) : c \in asc}

Inflation == <<"i","n","f","l","a","t","i","o","n">>

NextYoy ==
  \/ Call(Inflation)
  \/ pc = "fetch" /\ \E c \in RisingCharts :
                       RespondFred(WellFormed(FredPayload(Some(c), "", "")))
  \/ Complete
  \/ Return

SpecYoy == Init /\ [][NextYoy]_vars

(***************************************************************************)
(* The level request ("CPI") against a domestic service that answers with  *)
(* every chart_data of up to MaxRows rows                                  *)
(***************************************************************************)
MaxRows == 3

RowDates == {JDate(1), JDate(2), JNullDate, JBadDate}
RowValues == {JNum(5), JNumStr(7), JBadStr, JNull}
Rows == {[date |-> d, value |-> v] : d \in RowDates, v \in RowValues}

SmallCharts == UNION {[1..n -> Rows] : n \in 0..MaxRows}

Cpi == <<"C","P","I">>

NextDecode ==
  \/ Call(Cpi)
  \/ pc = "fetch" /\ \E c \in SmallCharts :
                       RespondFred(WellFormed(FredPayload(Some(c), "", "")))
  \/ Complete
  \/ Return

SpecDecode == Init /\ [][NextDecode]_vars

(***************************************************************************)
(* Questions about Brazil and about no country, over the words the         *)
(* indicator groups look for                                               *)
(***************************************************************************)
MaxIndicatorWords == 3

IndicatorVocabulary ==
  { <<"W","h","a","t","'","s"," ","B","r","a","z","i","l","'","s">>,
    <<"G","D","P"," ","g","r","o","w","t","h","?">>,
    <<"i","n","f","l","a","t","i","o","n">>,
    <<"C","P","I">>,
    <<"p","r","i","c","e","s">>,
    <<"u","n","e","m","p","l","o","y","m","e","n","t">>,
    <<"j","o","b","l","e","s","s">>,
    <<"c","u","r","r","e","n","t"," ","a","c","c","o","u","n","t">>,
    <<"T","r","a","d","e"," ","B","a","l","a","n","c","e">> }

\* a summary with every field, a summary with none, and a timeout
IndicatorResponses ==
  { WellFormed(Summary(JNum(3), JNum(2024), JNum(2), JNum(2023), JNumStr(1))),
    WellFormed(EmptySummary),
    Timeout(EmptySummary) }

NextIndicator ==
  \/ pc = "idle" /\ \E q \in QueriesOver(IndicatorVocabulary, MaxIndicatorWords) : Call(q)
  \/ pc = "fetch" /\ \E r \in IndicatorResponses : RespondImf(r)
  \/ RespondFred(Timeout(FredPayload(None, "", "")))
  \/ Complete
  \/ Return

SpecIndicator == Init /\ [][NextIndicator]_vars

(***************************************************************************)
(* The page's session: the visitor submits prompts, a render pass hands    *)
(* the pending one to get_demo_response and keeps what it returns          *)
(***************************************************************************)
MaxSubmits == 3

SessionPrompts ==
  { <<"B","r","a","z","i","l">>, Cpi, <<"S","h","o","w"," ","m","e">> }

\* the import of demo_client succeeded or raised ImportError
InitSession ==
  /\ pc = "idle"
  /\ Unset
  /\ seen = None
  /\ DEMO_AVAILABLE \in BOOLEAN
  /\ pending_query = None
  /\ demo_response = None
  /\ submitted = 0
  /\ fetches = 0

\* a render pass with nothing pending reaches st.chat_input, which returns
\* the prompt the visitor submitted
Submit(prompt) ==
  /\ pc = "idle"
  /\ pending_query = None
  /\ submitted < MaxSubmits
  /\ submitted' = submitted + 1
  /\ pending_query' = IF DEMO_AVAILABLE THEN Some(prompt) ELSE pending_query
  /\ UNCHANGED <<pc, query, country_info, indicator, series_id, default_title,
                 default_y_label, transform, requests, response, imf_data, df,
                 series_info, result, seen, DEMO_AVAILABLE, demo_response,
                 fetches>>

\* HandlePending that leaves the prompt in the pending slot
HandlePending_keep ==
  /\ pending_query # None
  /\ fetches <= MaxSubmits
  /\ get_demo_response(pending_query[1])
  /\ fetches' = fetches + 1
  /\ UNCHANGED <<DEMO_AVAILABLE, pending_query, demo_response, submitted>>

\* a render pass with a pending query: the slot is emptied, then
\* get_demo_response is called with what it held
HandlePending ==
  /\ pending_query # None
  /\ get_demo_response(pending_query[1])
  /\ pending_query' = None
  /\ fetches' = fetches + 1
  /\ UNCHANGED <<DEMO_AVAILABLE, demo_response, submitted>>

\* get_demo_response returned: the pass stores the triple with the query
\* and reruns
Store ==
  /\ pc = "done"
  /\ demo_response' = Some(<<result[1].text, result[1].chart, result[1].agent, query>>)
  /\ pc' = "idle"
  /\ Reset
  /\ UNCHANGED <<seen, DEMO_AVAILABLE, pending_query, submitted, fetches>>

\* get_demo_response raised: the pass ends there
Abort == pc = "raised" /\ Return

SessionImfResponses ==
  IndicatorResponses
  \cup {WellFormed(Summary(JNull, JNum(2024), JNum(2), JNum(2023), JNumStr(1)))}

SessionFredResponses ==
  { Timeout(FredPayload(None, "", "")),
    WellFormed(FredPayload(Some(BaseRows(2)), "", "")) }

NextSession ==
  \/ pc = "idle" /\ \E prompt \in SessionPrompts : Submit(prompt)
  \/ HandlePending
  \/ pc = "fetch" /\ \E r \in SessionImfResponses : RespondImf(r)
  \/ pc = "fetch" /\ \E r \in SessionFredResponses : RespondFred(r)
  \/ Complete
  \/ Store
  \/ Abort

SpecSession == InitSession /\ [][NextSession]_vars

(***************************************************************************)
(* Properties                                                              *)
(***************************************************************************)
\* `word in query.lower()`
Contains(word, q) == IsSubstring(word, lower(q))

ForeignEntries == {i \in 1..Len(COUNTRY_CODES) : COUNTRY_CODES[i][2] # "USA"}
HasForeignName(q) ==
  LET ql == lower(q)
  IN \E i \in ForeignEntries : IsSubstring(COUNTRY_CODES[i][1], ql)
HasCountryName(q) ==
  LET ql == lower(q)
  IN \E i \in 1..Len(COUNTRY_CODES) : IsSubstring(COUNTRY_CODES[i][1], ql)
HasKeyword(q) ==
  LET ql == lower(q)
  IN \E i \in 1..Len(QUERY_MAPPINGS) : IsSubstring(QUERY_MAPPINGS[i].keyword, ql)

Called == pc # "idle"
Returned == pc = "done"
Over == pc \in {"done", "raised"}

SentTo(url) == Len(requests) = 1 /\ requests[1].url = url

\* the codes of the foreign names a query contains, a name that is part of
\* a longer contained name ("uk" in "ukraine") not counted
NamedCodes(q) ==
  LET ql == lower(q)
      inside(i) == IsSubstring(COUNTRY_CODES[i][1], ql)
      part(i) == \E j \in ForeignEntries :
                    /\ COUNTRY_CODES[j][1] # COUNTRY_CODES[i][1]
                    /\ IsSubstring(COUNTRY_CODES[i][1], COUNTRY_CODES[j][1])
                    /\ inside(j)
  IN {COUNTRY_CODES[i][2] : i \in {k \in ForeignEntries : inside(k) /\ ~part(k)}}

\* C1: a query containing a COUNTRY_CODES name whose code is not USA is sent
\* to the IMF endpoint with that country's own ISO code ("ukraine" with UKR,
\* "brazil" with BRA); stated for the queries that name one foreign country
C1_ForeignNameSentWithOwnCode ==
  Called =>
    \A code \in NamedCodes(query) :
      NamedCodes(query) = {code} =>
        /\ SentTo("IMF_MCP_URL")
        /\ requests[1].arguments.country = code

\* C2: a query with no COUNTRY_CODES name and no QUERY_MAPPINGS keyword
\* returns the help text with no chart as "Grace", and no POST is issued
IsHelp ==
  /\ Returned
  /\ result = Some([text |-> HelpText, chart |-> None, agent |-> "Grace"])
  /\ requests = <<>>
  /\ response = None

C2_UnrecognisedGetsHelp ==
  Called => (IsHelp \/ HasCountryName(query) \/ HasKeyword(query))

C2_Witness ==
  /\ IsHelp
  /\ query = <<"S","h","o","w"," ","m","e">>
  /\ ~HasCountryName(query) /\ ~HasKeyword(query)

\* C3: after a network error or timeout, a non-200 status, a JSON decode
\* failure of the outer or the nested payload, or an "error" field, the
\* fetch returned None and the response is the path's apology with no
\* chart; apology and success carry the path's label ("Fred" / "Isla")
FetchFailed(r) ==
  \/ r.transport # "ok"
  \/ r.status # 200
  \/ r.outer = "invalid"
  \/ r.error
  \/ r.text = "invalid"

PathLabel == IF SentTo("IMF_MCP_URL") THEN "Isla" ELSE "Fred"
PathApology == IF SentTo("IMF_MCP_URL") THEN "imf_apology" ELSE "fred_apology"

C3_FailedFetchApologises ==
  (Over /\ response # None) =>
    /\ Returned => result[1].agent = PathLabel
    /\ FetchFailed(response[1]) =>
         /\ Returned
         /\ imf_data = None /\ df = None
         /\ result[1].text.kind = PathApology
         /\ result[1].chart = None

C3_Witness ==
  /\ Returned /\ response # None
  /\ SentTo("FRED_MCP_URL")
  /\ response[1].transport = "ok" /\ response[1].status = 200
  /\ response[1].error /\ response[1].content = "item"
  /\ result[1].text.kind = "fred_apology" /\ result[1].agent = "Fred"

\* C4: a well-formed 200 envelope with an empty series (chart_data missing,
\* empty or all non-numeric) or an empty summary (none of the summary
\* fields) yields the apology with no chart
AllAbsent(p) ==
  /\ p.latest_value.t = "absent" /\ p.latest_year.t = "absent"
  /\ p.previous_value.t = "absent" /\ p.previous_year.t = "absent"
  /\ p.change.t = "absent"

NoNumericRow(p) ==
  \/ p.chart_data = None
  \/ \A i \in 1..Len(p.chart_data[1]) :
        p.chart_data[1][i].value.t \notin {"num", "numstr"}

DataAbsent ==
  /\ response # None
  /\ response[1] = WellFormed(response[1].payload)
  /\ IF SentTo("IMF_MCP_URL") THEN AllAbsent(response[1].payload)
     ELSE NoNumericRow(response[1].payload)

C4_DataAbsentApologises ==
  (Over /\ DataAbsent) =>
    /\ Returned
    /\ result[1].text.kind = PathApology
    /\ result[1].chart = None

\* C5: no exception leaves get_demo_response, whatever the service answers
C5_NoExceptionEscapes == pc # "raised"

\* C7: with no foreign country name in the query, the domestic series is
\* that of the first QUERY_MAPPINGS keyword, in declaration order, contained
\* in the lower-cased query; so a query containing "inflation" resolves to
\* CPIAUCSL with transform yoy and is answered as "Fred"
FirstKeyword(q, i) ==
  LET ql == lower(q)
  IN /\ IsSubstring(QUERY_MAPPINGS[i].keyword, ql)
     /\ \A j \in 1..(i - 1) : ~IsSubstring(QUERY_MAPPINGS[j].keyword, ql)

C7_FirstKeywordWins ==
  (Called /\ ~HasForeignName(query)) =>
    /\ \A i \in 1..Len(QUERY_MAPPINGS) :
         FirstKeyword(query, i) =>
           /\ series_id = Some(QUERY_MAPPINGS[i].sid)
           /\ transform = QUERY_MAPPINGS[i].xform
           /\ SentTo("FRED_MCP_URL")
           /\ requests[1].arguments.series_id = QUERY_MAPPINGS[i].sid
    /\ Contains(Inflation, query) =>
         /\ series_id = Some("CPIAUCSL")
         /\ transform = "yoy"
         /\ SentTo("FRED_MCP_URL")
         /\ Returned => result[1].agent = "Fred"

C7_Witness ==
  /\ Returned
  /\ query = <<"C","P","I"," ","i","n","f","l","a","t","i","o","n">>
  /\ ~HasForeignName(query)
  /\ series_id = Some("CPIAUCSL") /\ transform = "yoy"
  /\ result[1].agent = "Fred"

\* C6: transform_to_yoy on a rising series of n monthly points returns
\* n - 12 points in date order: the first 12 months are dropped, the dates
\* of the others are kept, and the value at month i is
\* (v[i] - v[i-12]) / v[i-12] * 100
ReceivedRows == response[1].payload.chart_data[1]
ValueAt(month) ==
  LET i == CHOOSE k \in 1..Len(ReceivedRows) : ReceivedRows[k].date.v = month
  IN ReceivedRows[i].value.v

FEq(a, b) == /\ a.t = b.t
             /\ a.t = "num" => a.n * b.d = b.n * a.d

YoyOf(now, before) ==
  FMulInt(FDiv(Float(now - before, 1), Float(before, 1)), 100)

IsRising(rows) ==
  /\ \A i \in 1..Len(rows) : \E k \in 1..Len(rows) : rows[k].date = JDate(i)
  /\ \A i, k \in 1..Len(rows) :
       rows[i].date.v < rows[k].date.v => rows[i].value.v < rows[k].value.v

C6_YoyOfRisingSeries ==
  (Returned /\ transform = "yoy" /\ IsRising(ReceivedRows)
     /\ Len(ReceivedRows) >= YoyPeriods) =>
    LET n == Len(ReceivedRows)
    IN /\ df # None
       /\ Len(df[1]) = n - YoyPeriods
       /\ \A k \in 1..(n - YoyPeriods) :
            /\ df[1][k].date = Timestamp(k + YoyPeriods)
            /\ FEq(df[1][k].value, YoyOf(ValueAt(k + YoyPeriods), ValueAt(k)))

C6_Witness ==
  /\ Returned /\ transform = "yoy"
  /\ Len(ReceivedRows) = YoyPeriods + 2
  /\ ReceivedRows[1].date.v > ReceivedRows[2].date.v
  /\ IsRising(ReceivedRows)
  /\ Len(df[1]) = 2
  /\ df[1][2].value.t = "num" /\ df[1][2].value.n > 0

\* C8 as stated: every returned response is backed by exactly one of a
\* series and a summary, the series for the domestic source and the summary
\* for the international one
SeriesBacked == df # None /\ Len(df[1]) > 0
SummaryBacked == imf_data # None

C8_ExactlyOneBacking ==
  Returned =>
    /\ SeriesBacked # SummaryBacked
    /\ SeriesBacked <=> SentTo("FRED_MCP_URL")
    /\ SummaryBacked <=> SentTo("IMF_MCP_URL")

\* C8 as amended: a response with a chart is backed by exactly one of the
\* two, the series if the POST went to FRED and the summary if it went to
\* IMF; a response without a chart (help text, apology) is backed by
\* neither; no response is backed by both
C8_ChartHasOneBacking ==
  Returned =>
    /\ ~(SeriesBacked /\ SummaryBacked)
    /\ result[1].chart # None =>
         /\ SeriesBacked # SummaryBacked
         /\ SeriesBacked <=> SentTo("FRED_MCP_URL")
         /\ SummaryBacked <=> SentTo("IMF_MCP_URL")
    /\ result[1].chart = None => (~SeriesBacked /\ ~SummaryBacked)

C8_Witness ==
  /\ Returned
  /\ result[1].chart # None
  /\ SummaryBacked /\ ~SeriesBacked
  /\ SentTo("IMF_MCP_URL")
  /\ ~Parses(Get(imf_data[1].change, JNumStr(0)))

Points == IF df = None THEN <<>> ELSE df[1]

IsNumeric(row) == row.value.t \in {"num", "numstr"}
HasDate(row) == row.date.t = "date"

SameRows(points, rows) ==
  /\ Len(points) = Len(rows)
  /\ \A k \in 1..Len(rows) :
       /\ points[k].value = Float(rows[k].value.v, 1)
       /\ rows[k].date.t = "date" => points[k].date = Timestamp(rows[k].date.v)

C10_OnePointPerNumericRow ==
  (Returned /\ response # None) => SameRows(Points, SelectSeq(ReceivedRows, IsNumeric))

\* C10 as amended: when every date is a date or null, the decoded series
\* has exactly one point per row with a numeric value and a non-null date,
\* in the received order, with the received values and dates; when a date
\* does not parse, no series is returned
C10_OnePointPerCompleteRow ==
  (Returned /\ response # None) =>
    IF \E i \in 1..Len(ReceivedRows) : ReceivedRows[i].date.t = "bad"
    THEN df = None
    ELSE LET complete(row) == IsNumeric(row) /\ HasDate(row)
         IN SameRows(Points, SelectSeq(ReceivedRows, complete))

C10_Witness ==
  /\ Returned /\ response # None
  /\ Len(ReceivedRows) = 3
  /\ ~IsNumeric(ReceivedRows[2]) /\ HasDate(ReceivedRows[2])
  /\ ReceivedRows[3].date.t = "null" /\ IsNumeric(ReceivedRows[3])
  /\ df # None /\ Len(df[1]) = 1
  /\ df[1][1].value = Float(7, 1)

\* C11: one invocation issues at most one POST: exactly one to the IMF
\* endpoint (none to FRED) when the query names a foreign country, exactly
\* one to FRED (none to IMF) when a domestic keyword matches, and the POST is
\* not repeated after a failure or a timeout
C11_AtMostOnePost ==
  /\ Len(requests) <= 1
  /\ Called =>
       /\ HasForeignName(query) => SentTo("IMF_MCP_URL")
       /\ (~HasForeignName(query) /\ HasKeyword(query)) => SentTo("FRED_MCP_URL")
       /\ (~HasForeignName(query) /\ ~HasKeyword(query)) => requests = <<>>

C11_Witness ==
  /\ Returned /\ response # None
  /\ response[1].transport = "timeout"
  /\ SentTo("IMF_MCP_URL")
  /\ result[1].text.kind = "imf_apology"

\* C12: on the international path the tool is chosen by ordered keyword
\* groups over the lower-cased query: imf_inflation for "inflation", "cpi" or
\* "price"; else imf_unemployment for "unemployment" or "jobless"; else
\* imf_current_account for "current account" or "trade balance"; else
\* imf_gdp.  "What's Brazil's GDP growth?" resolves to (BRA, imf_gdp), and
\* every international response, success or apology, carries "Isla"
GroupTool(q) ==
  LET ql == lower(q)
      in(w) == IsSubstring(w, ql)
  IN CASE in(Inflation) \/ in(<<"c","p","i">>) \/ in(<<"p","r","i","c","e">>)
            -> "imf_inflation"
       [] ~(in(Inflation) \/ in(<<"c","p","i">>) \/ in(<<"p","r","i","c","e">>))
          /\ (in(<<"u","n","e","m","p","l","o","y","m","e","n","t">>)
              \/ in(<<"j","o","b","l","e","s","s">>))
            -> "imf_unemployment"
       [] ~(in(Inflation) \/ in(<<"c","p","i">>) \/ in(<<"p","r","i","c","e">>))
          /\ ~(in(<<"u","n","e","m","p","l","o","y","m","e","n","t">>)
               \/ in(<<"j","o","b","l","e","s","s">>))
          /\ (in(<<"c","u","r","r","e","n","t"," ","a","c","c","o","u","n","t">>)
              \/ in(<<"t","r","a","d","e"," ","b","a","l","a","n","c","e">>))
            -> "imf_current_account"
       [] OTHER -> "imf_gdp"

BrazilGdpGrowth ==
  <<"W","h","a","t","'","s"," ","B","r","a","z","i","l","'","s"," ",
    "G","D","P"," ","g","r","o","w","t","h","?">>

C12_ToolByKeywordGroup ==
  (Called /\ HasForeignName(query)) =>
    /\ SentTo("IMF_MCP_URL")
    /\ requests[1].name = GroupTool(query)
    /\ indicator # None /\ indicator[1].tool_name = GroupTool(query)
    /\ Returned => result[1].agent = "Isla"
    /\ query = BrazilGdpGrowth =>
         /\ requests[1].name = "imf_gdp"
         /\ requests[1].arguments.country = "BRA"

C12_Witness ==
  /\ Returned
  /\ query = BrazilGdpGrowth
  /\ requests[1].name = "imf_gdp" /\ requests[1].arguments.country = "BRA"
  /\ result[1].text.kind = "imf_summary" /\ result[1].agent = "Isla"

\* C13: after a successful international fetch the response is a full
\* success response (summary text, a chart of two bars, "Isla") whose
\* direction is "up" when the numeric change is above zero, "down" when
\* below, "unchanged" when zero, and "changed" with an empty glyph when the
\* change does not parse as a number
SignDirection(change) ==
  IF ~(change.t \in {"num", "numstr"}) THEN <<"changed", "">>
  ELSE IF change.v > 0 THEN <<"up", "chart_up">>
  ELSE IF change.v < 0 THEN <<"down", "chart_down">>
  ELSE <<"unchanged", "arrow_right">>

C13_DirectionFromChange ==
  (Over /\ SentTo("IMF_MCP_URL") /\ imf_data # None) =>
    /\ Returned
    /\ result[1].text.kind = "imf_summary"
    /\ result[1].chart # None
    /\ result[1].chart[1].kind = "bar" /\ Len(result[1].chart[1].y) = 2
    /\ result[1].agent = "Isla"
    /\ <<result[1].text.direction, result[1].text.direction_emoji>>
         = SignDirection(Get(imf_data[1].change, JNumStr(0)))

\* C14: in the page's session a submitted prompt enters the pending slot
\* only when the demo client is available; the render pass empties the
\* pending slot before the fetch starts, so while a fetch is running nothing
\* is pending and every submitted prompt is fetched at most once; when the
\* fetch returns the response slot becomes (text, chart, responder, query)
\* for the query that was pending, and nothing else changes that slot
C14_Slots ==
  /\ ~DEMO_AVAILABLE => (pending_query = None /\ fetches = 0 /\ demo_response = None)
  /\ Called => pending_query = None
  /\ fetches <= submitted
  /\ DEMO_AVAILABLE =>
       submitted = fetches + (IF pending_query = None THEN 0 ELSE 1)

C14_Writes ==
  /\ (pending_query' # pending_query /\ pending_query' # None) =>
       (DEMO_AVAILABLE /\ submitted' = submitted + 1)
  /\ fetches' # fetches =>
       /\ pc = "idle" /\ pending_query # None /\ pending_query' = None
       /\ fetches' = fetches + 1
       /\ query' = pending_query[1]
  /\ (pc = "done" /\ pc' = "idle") =>
       demo_response' = Some(<<result[1].text, result[1].chart, result[1].agent, query>>)
  /\ demo_response' # demo_response => (pc = "done" /\ pc' = "idle")

C14_OnePendingOneResponse == []C14_Slots /\ [][C14_Writes]_vars

C14_Witness ==
  /\ pc = "idle" /\ pending_query = None
  /\ submitted = 2 /\ fetches = 2
  /\ demo_response # None
  /\ demo_response[1][4] = Cpi /\ demo_response[1][3] = "Fred"
  /\ demo_response[1][2] # None

\* C15: a successful domestic response, level or yoy, quotes the date and
\* value of the point with the greatest date among the decoded points,
\* whatever the order of the rows received; a yoy request with 12 or fewer
\* decoded points gets the domestic apology with no chart
Decoded ==
  LET got == get_fred_data(response[1]).df
  IN IF got = None THEN <<>> ELSE got[1]

QuotesLatest ==
  LET text == result[1].text
  IN /\ \A i \in 1..Len(Decoded) : Decoded[i].date.v <= text.latest_date.v
     /\ \E i \in 1..Len(df[1]) :
          /\ df[1][i].date = text.latest_date
          /\ df[1][i].value = text.latest_value

C15_LatestPointQuoted ==
  (Over /\ SentTo("FRED_MCP_URL")) =>
    /\ (Returned /\ result[1].chart # None) => QuotesLatest
    /\ (transform = "yoy" /\ Len(Decoded) <= YoyPeriods) =>
         /\ Returned
         /\ result[1].text.kind = "fred_apology"
         /\ result[1].chart = None
====
